---- MODULE Spec2Model ----
(***************************************************************************)
(* A model of the eclipse-video tools: the stabilization frame loop of     *)
(* stabilization.py, which tracks the eclipse circle from frame to frame,  *)
(* and the analysis functions of video_analysis.py, which turn the frames  *)
(* of a clip into per-frame intensity series.                              *)
(*                                                                         *)
(* video_analysis.py mixes tabs and spaces; the model follows the block    *)
(* structure its indentation shows (a tab is one level, as are four        *)
(* spaces inside the space-indented functions), and takes the name math    *)
(* to be bound by the star import.                                         *)
(***************************************************************************)
EXTENDS Integers, Sequences, FiniteSets, TLC

(***************************************************************************)
(* Bounds of the model.                                                    *)
(***************************************************************************)
\* the longest video the stabilization loop reads
MaxFrames == 3
\* the longest clip the analysis functions read, in seconds
MaxDuration == 2
\* the largest fps, maximum radius and the frame size of an analysis call
MaxFps == 2
MaxRadius == 4
FrameH == 4
FrameW == 5
\* the strides a compressed function is called with
CompressValues == {1, 2, 3, 7}

(***************************************************************************)
(* Values shared by both programs.                                         *)
(***************************************************************************)
\* cv2.HoughCircles returns None when it finds no circle
None == <<>>

\* a text file that has not been written, and the file np.savetxt writes
NoFile == [written |-> FALSE, rows |-> <<>>]
Savetxt(rows) == [written |-> TRUE, rows |-> rows]

Last(s) == s[Len(s)]

\* np.around on a value given in halves (2*v): round half to even
Around(h) ==
    LET q == h \div 2
    IN  IF h % 2 = 0 THEN q
        ELSE IF q % 2 = 0 THEN q ELSE q + 1

\* np.uint16(np.around(v)) on a value given in halves
Uint16Around(h) == Around(h) % 65536

\* np.uint16(np.around(circles))[0,:]: the detected circles, rounded
RoundCircles(raw) ==
    [k \in 1..Len(raw) |->
        <<Uint16Around(raw[k][1]), Uint16Around(raw[k][2]), Uint16Around(raw[k][3])>>]


(***************************************************************************)
(* video_analysis.py: numbers.  A mean is a fraction <<n, d>> with d > 0;  *)
(* two fractions are the same number when RatEq holds of them.             *)
(***************************************************************************)
RatEq(p, q) == p[1] * q[2] = q[1] * p[2]

RatAdd(p, q) ==
    LET a == p
        b == q
    IN  IF a[2] = b[2] THEN <<a[1] + b[1], a[2]>>
        ELSE <<a[1] * b[2] + b[1] * a[2], a[2] * b[2]>>

RatDivInt(p, k) == <<p[1], p[2] * k>>

\* sum(values) of a list of n values: Python's sum starts from 0 and adds
\* from left to right; the additions are exact here, so they are grouped in
\* halves
RatSum(values, n) ==
    LET part[lo \in 1..n, hi \in 1..n] ==
            IF lo = hi THEN RatAdd(<<0, 1>>, values[lo])
            ELSE RatAdd(part[lo, (lo + hi) \div 2],
                        part[((lo + hi) \div 2) + 1, hi])
    IN  IF n = 0 THEN <<0, 1>> ELSE part[1, n]

\* ndarray.mean(axis=0) of a one-dimensional array, and sum(v)/len(v) of a
\* list that is not empty
Mean(values) ==
    LET n == Len(values)
    IN  RatDivInt(RatSum(values, n), n)

\* int(v) of a float v = a / b, b > 0: truncation toward zero
TruncDiv(a, b) == IF a >= 0 THEN a \div b ELSE -((-a) \div b)

\* the angles a sampler sweeps: range(0, 360)
Degrees == 360

\* math.cos(math.radians(i)) and math.sin(math.radians(i)) for i in
\* range(0, 360), as the double the C library returns, in units of
\* 1/TrigScale and cut toward zero.  cos(90 deg), sin(180 deg) and their
\* like are tiny non-zero doubles, and sin(30 deg) is just below 1/2.
TrigScale == 100000000

CosTable ==
    <<
    100000000, 99984769, 99939082, 99862953, 99756405, 99619469, 99452189, 99254615,
    99026806, 98768834, 98480775, 98162718, 97814760, 97437006, 97029572, 96592582,
    96126169, 95630475, 95105651, 94551857, 93969262, 93358042, 92718385, 92050485,
    91354545, 90630778, 89879404, 89100652, 88294759, 87461970, 86602540, 85716730,
    84804809, 83867056, 82903757, 81915204, 80901699, 79863551, 78801075, 77714596,
    76604444, 75470958, 74314482, 73135370, 71933980, 70710678, 69465837, 68199836,
    66913060, 65605902, 64278760, 62932039, 61566147, 60181502, 58778525, 57357643,
    55919290, 54463903, 52991926, 51503807, 50000000, 48480962, 46947156, 45399049,
    43837114, 42261826, 40673664, 39073112, 37460659, 35836794, 34202014, 32556815,
    30901699, 29237170, 27563735, 25881904, 24192189, 22495105, 20791169, 19080899,
    17364817, 15643446, 13917310, 12186934, 10452846, 8715574, 6975647, 5233595,
    3489949, 1745240, 0, -1745240, -3489949, -5233595, -6975647, -8715574,
    -10452846, -12186934, -13917310, -15643446, -17364817, -19080899, -20791169, -22495105,
    -24192189, -25881904, -27563735, -29237170, -30901699, -32556815, -34202014, -35836794,
    -37460659, -39073112, -40673664, -42261826, -43837114, -45399049, -46947156, -48480962,
    -49999999, -51503807, -52991926, -54463903, -55919290, -57357643, -58778525, -60181502,
    -61566147, -62932039, -64278760, -65605902, -66913060, -68199836, -69465837, -70710678,
    -71933980, -73135370, -74314482, -75470958, -76604444, -77714596, -78801075, -79863551,
    -80901699, -81915204, -82903757, -83867056, -84804809, -85716730, -86602540, -87461970,
    -88294759, -89100652, -89879404, -90630778, -91354545, -92050485, -92718385, -93358042,
    -93969262, -94551857, -95105651, -95630475, -96126169, -96592582, -97029572, -97437006,
    -97814760, -98162718, -98480775, -98768834, -99026806, -99254615, -99452189, -99619469,
    -99756405, -99862953, -99939082, -99984769, -100000000, -99984769, -99939082, -99862953,
    -99756405, -99619469, -99452189, -99254615, -99026806, -98768834, -98480775, -98162718,
    -97814760, -97437006, -97029572, -96592582, -96126169, -95630475, -95105651, -94551857,
    -93969262, -93358042, -92718385, -92050485, -91354545, -90630778, -89879404, -89100652,
    -88294759, -87461970, -86602540, -85716730, -84804809, -83867056, -82903757, -81915204,
    -80901699, -79863551, -78801075, -77714596, -76604444, -75470958, -74314482, -73135370,
    -71933980, -70710678, -69465837, -68199836, -66913060, -65605902, -64278760, -62932039,
    -61566147, -60181502, -58778525, -57357643, -55919290, -54463903, -52991926, -51503807,
    -50000000, -48480962, -46947156, -45399049, -43837114, -42261826, -40673664, -39073112,
    -37460659, -35836794, -34202014, -32556815, -30901699, -29237170, -27563735, -25881904,
    -24192189, -22495105, -20791169, -19080899, -17364817, -15643446, -13917310, -12186934,
    -10452846, -8715574, -6975647, -5233595, -3489949, -1745240, 0, 1745240,
    3489949, 5233595, 6975647, 8715574, 10452846, 12186934, 13917310, 15643446,
    17364817, 19080899, 20791169, 22495105, 24192189, 25881904, 27563735, 29237170,
    30901699, 32556815, 34202014, 35836794, 37460659, 39073112, 40673664, 42261826,
    43837114, 45399049, 46947156, 48480962, 50000000, 51503807, 52991926, 54463903,
    55919290, 57357643, 58778525, 60181502, 61566147, 62932039, 64278760, 65605902,
    66913060, 68199836, 69465837, 70710678, 71933980, 73135370, 74314482, 75470958,
    76604444, 77714596, 78801075, 79863551, 80901699, 81915204, 82903757, 83867056,
    84804809, 85716730, 86602540, 87461970, 88294759, 89100652, 89879404, 90630778,
    91354545, 92050485, 92718385, 93358042, 93969262, 94551857, 95105651, 95630475,
    96126169, 96592582, 97029572, 97437006, 97814760, 98162718, 98480775, 98768834,
    99026806, 99254615, 99452189, 99619469, 99756405, 99862953, 99939082, 99984769
    >>

SinTable ==
    <<
    0, 1745240, 3489949, 5233595, 6975647, 8715574, 10452846, 12186934,
    13917310, 15643446, 17364817, 19080899, 20791169, 22495105, 24192189, 25881904,
    27563735, 29237170, 30901699, 32556815, 34202014, 35836794, 37460659, 39073112,
    40673664, 42261826, 43837114, 45399049, 46947156, 48480962, 49999999, 51503807,
    52991926, 54463903, 55919290, 57357643, 58778525, 60181502, 61566147, 62932039,
    64278760, 65605902, 66913060, 68199836, 69465837, 70710678, 71933980, 73135370,
    74314482, 75470958, 76604444, 77714596, 78801075, 79863551, 80901699, 81915204,
    82903757, 83867056, 84804809, 85716730, 86602540, 87461970, 88294759, 89100652,
    89879404, 90630778, 91354545, 92050485, 92718385, 93358042, 93969262, 94551857,
    95105651, 95630475, 96126169, 96592582, 97029572, 97437006, 97814760, 98162718,
    98480775, 98768834, 99026806, 99254615, 99452189, 99619469, 99756405, 99862953,
    99939082, 99984769, 100000000, 99984769, 99939082, 99862953, 99756405, 99619469,
    99452189, 99254615, 99026806, 98768834, 98480775, 98162718, 97814760, 97437006,
    97029572, 96592582, 96126169, 95630475, 95105651, 94551857, 93969262, 93358042,
    92718385, 92050485, 91354545, 90630778, 89879404, 89100652, 88294759, 87461970,
    86602540, 85716730, 84804809, 83867056, 82903757, 81915204, 80901699, 79863551,
    78801075, 77714596, 76604444, 75470958, 74314482, 73135370, 71933980, 70710678,
    69465837, 68199836, 66913060, 65605902, 64278760, 62932039, 61566147, 60181502,
    58778525, 57357643, 55919290, 54463903, 52991926, 51503807, 49999999, 48480962,
    46947156, 45399049, 43837114, 42261826, 40673664, 39073112, 37460659, 35836794,
    34202014, 32556815, 30901699, 29237170, 27563735, 25881904, 24192189, 22495105,
    20791169, 19080899, 17364817, 15643446, 13917310, 12186934, 10452846, 8715574,
    6975647, 5233595, 3489949, 1745240, 0, -1745240, -3489949, -5233595,
    -6975647, -8715574, -10452846, -12186934, -13917310, -15643446, -17364817, -19080899,
    -20791169, -22495105, -24192189, -25881904, -27563735, -29237170, -30901699, -32556815,
    -34202014, -35836794, -37460659, -39073112, -40673664, -42261826, -43837114, -45399049,
    -46947156, -48480962, -50000000, -51503807, -52991926, -54463903, -55919290, -57357643,
    -58778525, -60181502, -61566147, -62932039, -64278760, -65605902, -66913060, -68199836,
    -69465837, -70710678, -71933980, -73135370, -74314482, -75470958, -76604444, -77714596,
    -78801075, -79863551, -80901699, -81915204, -82903757, -83867056, -84804809, -85716730,
    -86602540, -87461970, -88294759, -89100652, -89879404, -90630778, -91354545, -92050485,
    -92718385, -93358042, -93969262, -94551857, -95105651, -95630475, -96126169, -96592582,
    -97029572, -97437006, -97814760, -98162718, -98480775, -98768834, -99026806, -99254615,
    -99452189, -99619469, -99756405, -99862953, -99939082, -99984769, -100000000, -99984769,
    -99939082, -99862953, -99756405, -99619469, -99452189, -99254615, -99026806, -98768834,
    -98480775, -98162718, -97814760, -97437006, -97029572, -96592582, -96126169, -95630475,
    -95105651, -94551857, -93969262, -93358042, -92718385, -92050485, -91354545, -90630778,
    -89879404, -89100652, -88294759, -87461970, -86602540, -85716730, -84804809, -83867056,
    -82903757, -81915204, -80901699, -79863551, -78801075, -77714596, -76604444, -75470958,
    -74314482, -73135370, -71933980, -70710678, -69465837, -68199836, -66913060, -65605902,
    -64278760, -62932039, -61566147, -60181502, -58778525, -57357643, -55919290, -54463903,
    -52991926, -51503807, -50000000, -48480962, -46947156, -45399049, -43837114, -42261826,
    -40673664, -39073112, -37460659, -35836794, -34202014, -32556815, -30901699, -29237170,
    -27563735, -25881904, -24192189, -22495105, -20791169, -19080899, -17364817, -15643446,
    -13917310, -12186934, -10452846, -8715574, -6975647, -5233595, -3489949, -1745240
    >>

\* an x offset rounded to the nearest integer, halves away from zero
XOffsetRounded(r, i) ==
    LET a == r * CosTable[i + 1]
    IN  IF a >= 0 THEN (2 * a + TrigScale) \div (2 * TrigScale)
        ELSE -((2 * (-a) + TrigScale) \div (2 * TrigScale))

\* int(r*math.cos(degree)) and int(r*math.sin(degree)), degree = radians(i)
XOffset(r, i) == TruncDiv(r * CosTable[i + 1], TrigScale)
YOffset(r, i) == TruncDiv(r * SinTable[i + 1], TrigScale)

(***************************************************************************)
(* Frames and clips.  A frame is its pixels pix[row][column] = <<r, g, b>> *)
(* and det, what cv2.HoughCircles returns on it.  A clip holds one frame   *)
(* per second of its duration.                                             *)
(***************************************************************************)
GradientPix(h, w) ==
    [yy \in 1..h |-> [xx \in 1..w |->
        <<10 * (yy - 1) + (xx - 1), 100 + 10 * (yy - 1) + (xx - 1), 200>>]]

ShadePix(h, w) ==
    [yy \in 1..h |-> [xx \in 1..w |->
        <<255 - 10 * (yy - 1) - (xx - 1), 3 * (xx - 1), 7 * (yy - 1)>>]]

ConstPix(h, w, colour) == [yy \in 1..h |-> [xx \in 1..w |-> colour]]

\* a circle inside the frame, one on its left edge and one on its right
\* edge, in halves of a pixel: they round to (2,2,1), (0,3,2) and (4,2,2)
RawInside == <<4, 4, 2>>
RawLeft == <<1, 6, 5>>
RawRight == <<9, 3, 3>>

Frames ==
    { [pix |-> GradientPix(FrameH, FrameW), det |-> <<RawInside>>],
      [pix |-> ConstPix(FrameH, FrameW, <<50, 100, 200>>), det |-> None],
      [pix |-> ShadePix(FrameH, FrameW), det |-> <<RawRight, RawLeft>>] }

\* the sequences of at most n members of S
SeqsUpTo(S, n) ==
    LET upto[k \in 0..n] ==
            IF k = 0 THEN {<<>>}
            ELSE upto[k - 1] \cup { Append(q, e) : q \in upto[k - 1], e \in S }
    IN  upto[n]

\* the video files a function can be given: one that cannot be decoded,
\* and the clips of 0..MaxDuration seconds
Clips ==
    {[decodable |-> FALSE, frames |-> <<>>]} \cup
    { [decodable |-> TRUE, frames |-> q] : q \in SeqsUpTo(Frames, MaxDuration) }

\* clip.iter_frames(fps): the frames at t = 0, 1/fps, 2/fps, ... < duration
IterFrames(c, f) ==
    [k \in 1..(Len(c.frames) * f) |-> c.frames[((k - 1) \div f) + 1]]

\* frame.shape[0] and frame.shape[1]
Height(pix) == Len(pix)
Width(pix) == Len(pix[1])

\* the circles (x, y, radius) that the detector can report
RawCircles == { RawInside, RawLeft, RawRight }

\* What cv2.HoughCircles can return for one frame: None, or one or two circles
Detections ==
    {None} \cup { <<c>> : c \in RawCircles }
           \cup { <<c, d>> : c \in RawCircles, d \in RawCircles }

(***************************************************************************)
(* stabilization.py: the state of the frame loop.                          *)
(***************************************************************************)
VARIABLES
    opened,            \* cap.isOpened() when the loop is first tested
    pc,                \* where the running program is
    circles,           \* the detector's result for the frame just read
    circle_coords,     \* the list of recorded estimates
    coord,             \* the estimate (x, y, radius) of the frame just read
    radius,            \* its radius
    frame_num,         \* frames read so far
    roi,               \* the region of interest <<x, y, w, h>> of the frame
    circle_coords_txt  \* the file circle_coords.txt

(***************************************************************************)
(* video_analysis.py: the state of one call of an analysis function.  pc   *)
(* and frame_num are the position and the frame counter of that call.      *)
(***************************************************************************)
VARIABLES
    call,                 \* the function called and its arguments
    clip,                 \* the video file it is given
    coords,               \* find_center_circle_pos: the centers found
    red_array,            \* find_RGB_Hues: the three series
    green_array,
    blue_array,
    x_total_array,        \* find_xy_intensities[_compressed]: column profiles
    y_total_array,        \*   and row profiles
    intensity_tot_angle,  \* find_angle_intensity[_compressed]: the series
    intensity_tot,        \* find_radius_intensity[_compressed]: the series
    raised,               \* the exception that ended the call, "" if none
    files                 \* the text files written

stab_vars == <<opened, circles, circle_coords, coord, radius, roi, circle_coords_txt>>

va_vars == <<call, clip, coords, red_array, green_array, blue_array,
             x_total_array, y_total_array, intensity_tot_angle, intensity_tot,
             raised, files>>

vars == <<pc, frame_num, stab_vars, va_vars>>

\* no analysis function is running
NoCall == [fn |-> "", fps |-> 1, radius |-> 0, compress |-> 1]

VaIdle ==
    /\ call = NoCall
    /\ clip = [decodable |-> FALSE, frames |-> <<>>]
    /\ coords = <<>>
    /\ red_array = <<>>
    /\ green_array = <<>>
    /\ blue_array = <<>>
    /\ x_total_array = <<>>
    /\ y_total_array = <<>>
    /\ intensity_tot_angle = <<>>
    /\ intensity_tot = <<>>
    /\ raised = ""
    /\ files = {}

\* coord and radius are unbound names before the first frame
Unset == <<>>

\* a default whose radius has the wrong sign
DefaultCoordNegativeRadius == <<680, 630, -280>>

\* the hardcoded estimate of a miss with no history
DefaultCoord == <<680, 630, 280>>

\* the margin around the circle that the region of interest keeps
RoiMargin == 100

\* a fallback that records the default again on every miss
TrackCoordsDefaultOnMiss(det, cc) ==
    IF det # None
    THEN cc \o RoundCircles(det)
    ELSE IF Len(cc) = 0 THEN cc ELSE Append(cc, DefaultCoord)

\* the detection / fallback branch: the new circle_coords for a frame on
\* which the detector returned det
TrackCoords(det, cc) ==
    IF det # None
    THEN cc \o RoundCircles(det)
    ELSE IF Len(cc) = 0 THEN cc ELSE Append(cc, Last(cc))

\* a fallback that forgets the history: every miss yields the default
TrackCoordDefaultOnMiss(det, cc) ==
    IF det # None
    THEN Last(RoundCircles(det))
    ELSE DefaultCoord

\* a fallback whose default has x and y exchanged
TrackCoordSwappedDefault(det, cc) ==
    IF det # None
    THEN Last(RoundCircles(det))
    ELSE IF Len(cc) = 0 THEN <<630, 680, 280>> ELSE Last(cc)

\* the detection / fallback branch: the estimate coord of that frame
TrackCoord(det, cc) ==
    IF det # None
    THEN Last(RoundCircles(det))
    ELSE IF Len(cc) = 0 THEN DefaultCoord ELSE Last(cc)

\* x, y, w, h of the masked region, x and y clipped at 0
RegionOfInterest(c, rad) ==
    LET x == -1 * rad - RoiMargin + c[1]
        y == -1 * rad - RoiMargin + c[2]
        w == rad + RoiMargin + c[1] - (-1 * rad - RoiMargin + c[1])
        h == rad + RoiMargin + c[2] - (-1 * rad - RoiMargin + c[2])
    IN  <<IF x < 0 THEN 0 ELSE x, IF y < 0 THEN 0 ELSE y, w, h>>

StabInit ==
    /\ opened \in BOOLEAN
    /\ pc = "loop"
    /\ circles = None
    /\ circle_coords = <<>>
    /\ coord = Unset
    /\ radius = Unset
    /\ frame_num = 0
    /\ roi = Unset
    /\ circle_coords_txt = NoFile
    /\ VaIdle

\* while(cap.isOpened()) is false at once: the video could not be opened
NotOpened ==
    /\ pc = "loop"
    /\ ~opened
    /\ pc' = "exit"
    /\ UNCHANGED <<opened, circles, circle_coords, coord, radius, frame_num,
                   roi, circle_coords_txt, va_vars>>

\* one pass of the loop with ret == True: detect, track, mask, show, then
\* the key test; key is what cv2.waitKey(1) & 0xFF returns
ReadFrame(det, key) ==
    /\ pc = "loop"
    /\ opened
    /\ frame_num < MaxFrames
    /\ circles' = IF det = None THEN None ELSE RoundCircles(det)
    /\ circle_coords' = TrackCoords(det, circle_coords)
    /\ coord' = TrackCoord(det, circle_coords)
    /\ radius' = coord'[3]
    /\ frame_num' = frame_num + 1
    /\ roi' = RegionOfInterest(coord', radius')
    /\ pc' = IF key = "q" THEN "exit" ELSE "loop"
    /\ UNCHANGED <<opened, circle_coords_txt, va_vars>>

\* one pass of the loop with ret == False: save the estimates and break
EndOfVideo ==
    /\ pc = "loop"
    /\ opened
    /\ circle_coords_txt' = Savetxt(circle_coords)
    /\ pc' = "exit"
    /\ UNCHANGED <<opened, circles, circle_coords, coord, radius, frame_num, roi,
                   va_vars>>

StabNext ==
    \/ NotOpened
    \/ \E det \in Detections, key \in {"q", "none"} : ReadFrame(det, key)
    \/ EndOfVideo

Spec == StabInit /\ [][StabNext]_vars

(***************************************************************************)
(* video_analysis.py: sampling a frame around a center.                    *)
(***************************************************************************)
\* range(a, b)
Range(a, b) == [k \in 1..(b - a) |-> a + k - 1]

\* a stride that leaves out the first member of the range
StridedSkippingFirst(a, b, compress) ==
    SelectSeq(Range(a, b), LAMBDA i : i % compress = 0 /\ i > a)

\* the members of range(a, b) that pass the test i % compress == 0
Strided(a, b, compress) == SelectSeq(Range(a, b), LAMBDA i : i % compress = 0)

\* numpy indexing of an axis of length n with index k: k in [-n, n) is
\* accepted, and a negative k counts from the end
InBounds(k, n) == -n <= k /\ k < n
Position(k, n) == IF k < 0 THEN k + n ELSE k

\* an x_new that is clamped at the left edge
XNewClampedAtLeft(x, r, i) ==
    IF x + XOffset(r, i) < 0 THEN 0 ELSE x + XOffset(r, i)

\* x_new and y_new of one sample, y_new after the test against the height
XNew(x, r, i) == x + XOffset(r, i)
YNew(pix, y, r, i) ==
    LET y_new == y + YOffset(r, i)
    IN  IF y_new >= Height(pix) THEN Height(pix) - 1 ELSE y_new

\* whether frame[y_new, x_new, :] is read without an IndexError
Readable(pix, x, y, r, i) ==
    /\ InBounds(YNew(pix, y, r, i), Height(pix))
    /\ InBounds(XNew(x, r, i), Width(pix))

\* the row and the column of the pixel frame[y_new, x_new, :] reads
RowRead(pix, y, r, i) == Position(YNew(pix, y, r, i), Height(pix))
ColumnRead(pix, x, r, i) == Position(XNew(x, r, i), Width(pix))

\* data = frame[y_new, x_new, :]; intensity_data = data.mean(axis=0)
Intensity(pix, x, y, r, i) ==
    LET data == pix[RowRead(pix, y, r, i) + 1][ColumnRead(pix, x, r, i) + 1]
    IN  Mean([c \in 1..3 |-> <<data[c], 1>>])

\* What the body of a sampler's frame loop produces: the frame's profile,
\* or the exception raised on the way.
Raised(exc) == [exc |-> exc, profile |-> <<>>]
Profile(p) == [exc |-> "", profile |-> p]

\* the sweep of a frame: angles outside, radii inside
AngleSweep(pix, x, y, angles, radii) ==
    IF \E a \in 1..Len(angles), b \in 1..Len(radii) :
           ~Readable(pix, x, y, radii[b], angles[a])
    THEN Raised("IndexError: frame")
    ELSE IF Len(angles) > 0 /\ Len(radii) = 0
    THEN Raised("ZeroDivisionError")
    ELSE Profile([a \in 1..Len(angles) |->
             Mean([b \in 1..Len(radii) |->
                 Intensity(pix, x, y, radii[b], angles[a])])])

\* the sweep of a frame: radii outside, angles inside
RadiusSweep(pix, x, y, radii, angles) ==
    IF \E b \in 1..Len(radii), a \in 1..Len(angles) :
           ~Readable(pix, x, y, radii[b], angles[a])
    THEN Raised("IndexError: frame")
    ELSE IF Len(radii) > 0 /\ Len(angles) = 0
    THEN Raised("ZeroDivisionError")
    ELSE Profile([b \in 1..Len(radii) |->
             Mean([a \in 1..Len(angles) |->
                 Intensity(pix, x, y, radii[b], angles[a])])])

\* the frame loop bodies of the four samplers
AngleProfile(pix, x, y, R) ==
    AngleSweep(pix, x, y, Range(0, Degrees), Range(1, R))

\* a compressed angle sweep that starts at 1 degree
AngleProfileCompressedFromOne(pix, x, y, R, compress) ==
    AngleSweep(pix, x, y, Strided(1, Degrees, compress), Range(1, R))

AngleProfileCompressed(pix, x, y, R, compress) ==
    AngleSweep(pix, x, y, Strided(0, Degrees, compress), Range(1, R))

RadiusProfile(pix, x, y, R) ==
    RadiusSweep(pix, x, y, Range(1, R), Range(0, Degrees))

\* a compressed radius sweep that starts at radius 0
RadiusProfileCompressedFromZero(pix, x, y, R, compress) ==
    RadiusSweep(pix, x, y, Strided(0, R, compress), Range(0, Degrees))

RadiusProfileCompressed(pix, x, y, R, compress) ==
    RadiusSweep(pix, x, y, Strided(1, R, compress), Range(0, Degrees))

(***************************************************************************)
(* video_analysis.py: the means of a frame, of its rows and of its columns *)
(***************************************************************************)
\* channel means of a frame read in the order blue, green, red
RGBValuesBGR(pix) ==
    [c \in 1..3 |->
        Mean([xx \in 1..Width(pix) |->
            Mean([yy \in 1..Height(pix) |-> <<pix[yy][xx][4 - c], 1>>])])]

\* a = frame[:,:,:]; b = a.mean(axis=0); RGB_values = b.mean(axis=0): for
\* each channel, the mean over the columns of the means over the rows
RGBValues(pix) ==
    [c \in 1..3 |->
        Mean([xx \in 1..Width(pix) |->
            Mean([yy \in 1..Height(pix) |-> <<pix[yy][xx][c], 1>>])])]

\* a = frame[i,:,:]; b = a.mean(axis=0); c = b.mean(axis=0)
RowMean(pix, i) ==
    Mean([c \in 1..3 |->
        Mean([xx \in 1..Width(pix) |-> <<pix[i + 1][xx][c], 1>>])])

\* d = frame[:, j, :]; e = d.mean(axis=0); f = e.mean(axis=0)
ColumnMean(pix, j) ==
    Mean([c \in 1..3 |->
        Mean([yy \in 1..Height(pix) |-> <<pix[yy][j + 1][c], 1>>])])

\* y_array_one_frame and x_array_one_frame of find_xy_intensities
YArrayOneFrame(pix) ==
    LET rows == Range(0, Height(pix))
    IN  [k \in 1..Len(rows) |-> RowMean(pix, rows[k])]

XArrayOneFrame(pix) ==
    LET columns == Range(0, Width(pix))
    IN  [k \in 1..Len(columns) |-> ColumnMean(pix, columns[k])]

\* y_array_one_frame and x_array_one_frame of find_xy_intensities_compressed
\* a compressed row profile that averages each group of compress rows
YArrayOneFrameGroupAverage(pix, compress) ==
    LET rows == Strided(0, Height(pix), compress)
    IN  [k \in 1..Len(rows) |->
            LET last == IF rows[k] + compress > Height(pix)
                        THEN Height(pix) ELSE rows[k] + compress
            IN  Mean([i \in 1..(last - rows[k]) |-> RowMean(pix, rows[k] + i - 1)])]

YArrayOneFrameCompressed(pix, compress) ==
    LET rows == Strided(0, Height(pix), compress)
    IN  [k \in 1..Len(rows) |-> RowMean(pix, rows[k])]

XArrayOneFrameCompressed(pix, compress) ==
    LET columns == Strided(0, Width(pix), compress)
    IN  [k \in 1..Len(columns) |-> ColumnMean(pix, columns[k])]

\* The profiles of every frame, center, maximum radius and stride of the
\* model, computed once: the loop bodies below look their frame up here.
PixSet == { f.pix : f \in Frames }
CenterSet ==
    { <<Uint16Around(Last(f.det)[1]), Uint16Around(Last(f.det)[2])>> :
        f \in { g \in Frames : g.det # None } }

AngleProfileOf ==
    [p \in PixSet, c \in CenterSet, R \in 0..MaxRadius |->
        AngleProfile(p, c[1], c[2], R)]

AngleProfileCompressedOf ==
    [p \in PixSet, c \in CenterSet, R \in 0..MaxRadius, k \in CompressValues |->
        AngleProfileCompressed(p, c[1], c[2], R, k)]

RadiusProfileOf ==
    [p \in PixSet, c \in CenterSet, R \in 0..MaxRadius |->
        RadiusProfile(p, c[1], c[2], R)]

RadiusProfileCompressedOf ==
    [p \in PixSet, c \in CenterSet, R \in 0..MaxRadius, k \in CompressValues |->
        RadiusProfileCompressed(p, c[1], c[2], R, k)]

\* fmt='%1.0f' and fmt='%1.4f': a value printed with dec decimals, as the
\* integer 10^dec times the printed number (round half to even)
RoundHalfEven(n, d) ==
    LET q == n \div d
        rem == n - q * d
    IN  IF 2 * rem < d THEN q
        ELSE IF 2 * rem > d THEN q + 1
        ELSE IF q % 2 = 0 THEN q ELSE q + 1

Format(v, dec) == RoundHalfEven(v[1] * (IF dec = 4 THEN 10000 ELSE 1), v[2])

\* a one-dimensional list as np.savetxt writes it: one value on each row
Column(values) == [k \in 1..Len(values) |-> <<values[k]>>]

\* np.savetxt(name, series, fmt) of a list of per-frame lists
SavetxtRows(name, series, dec) ==
    [name |-> name,
     rows |-> [k \in 1..Len(series) |->
                  [j \in 1..Len(series[k]) |-> Format(series[k][j], dec)]]]

(***************************************************************************)
(* video_analysis.py: the calls.                                           *)
(***************************************************************************)
PolarFns == {"find_angle_intensity", "find_radius_intensity",
             "find_angle_intensity_compressed", "find_radius_intensity_compressed"}

CompressedFns == {"find_xy_intensities_compressed",
                  "find_angle_intensity_compressed",
                  "find_radius_intensity_compressed"}

\* the calls of the polar samplers and of find_center_circle_pos
PolarCalls ==
    { [fn |-> f, fps |-> p, radius |-> R, compress |-> c] :
        f \in PolarFns \cap CompressedFns, p \in 1..MaxFps, R \in 0..MaxRadius,
        c \in CompressValues }
    \cup
    { [fn |-> f, fps |-> p, radius |-> R, compress |-> 1] :
        f \in PolarFns \ CompressedFns, p \in 1..MaxFps, R \in 0..MaxRadius }
    \cup
    { [fn |-> "find_center_circle_pos", fps |-> p, radius |-> 0, compress |-> 1] :
        p \in 1..MaxFps }

\* the calls of find_RGB_Hues and of the row and column profile functions
XYCalls ==
    { [fn |-> f, fps |-> p, radius |-> 0, compress |-> 1] :
        f \in {"find_RGB_Hues", "find_xy_intensities"}, p \in 1..MaxFps }
    \cup
    { [fn |-> "find_xy_intensities_compressed", fps |-> p, radius |-> 0,
       compress |-> c] : p \in 1..MaxFps, c \in CompressValues }

Calls == PolarCalls \cup XYCalls

VaInit ==
    /\ pc = "call"
    /\ frame_num = 0
    /\ call \in Calls
    /\ clip \in Clips
    /\ coords = <<>>
    /\ red_array = <<>>
    /\ green_array = <<>>
    /\ blue_array = <<>>
    /\ x_total_array = <<>>
    /\ y_total_array = <<>>
    /\ intensity_tot_angle = <<>>
    /\ intensity_tot = <<>>
    /\ raised = ""
    /\ files = {}
    /\ opened = FALSE
    /\ circles = None
    /\ circle_coords = <<>>
    /\ coord = Unset
    /\ radius = Unset
    /\ roi = Unset
    /\ circle_coords_txt = NoFile

series_vars == <<red_array, green_array, blue_array, x_total_array, y_total_array,
                 intensity_tot_angle, intensity_tot>>

\* clip = VideoFileClip(filename): raises when the file cannot be decoded.
\* A polar sampler next calls find_center_circle_pos(filename, fps=1).
OpenClip ==
    /\ pc = "call"
    /\ IF ~clip.decodable
       THEN pc' = "raised" /\ raised' = "IOError"
       ELSE /\ pc' = IF call.fn \in PolarFns \cup {"find_center_circle_pos"}
                     THEN "center" ELSE "loop"
            /\ raised' = raised
    /\ UNCHANGED <<frame_num, stab_vars, call, clip, coords, series_vars, files>>

\* the fps find_center_circle_pos iterates at: its argument, which every
\* sampler passes as 1
CenterFps == IF call.fn = "find_center_circle_pos" THEN call.fps ELSE 1

\* the center find_center_circle_pos records for a frame whose detection is
\* det: the x and y of the last circle
CenterOf(det) ==
    LET i == Last(RoundCircles(det))
    IN  <<i[1], i[2]>>

\* the coords list after a frame whose detection is det
CenterCoords(cs, det) == IF det # None THEN Append(cs, CenterOf(det)) ELSE cs

\* find_center_circle_pos: one pass of its frame loop
CenterFrame ==
    /\ pc = "center"
    /\ frame_num < Len(IterFrames(clip, CenterFps))
    /\ LET frame == IterFrames(clip, CenterFps)[frame_num + 1]
       IN  coords' = CenterCoords(coords, frame.det)
    /\ frame_num' = frame_num + 1
    /\ UNCHANGED <<pc, stab_vars, call, clip, series_vars, raised, files>>

\* find_center_circle_pos: return coords, to the caller or to a sampler,
\* which sets its own frame_num to 0
CenterReturn ==
    /\ pc = "center"
    /\ frame_num = Len(IterFrames(clip, CenterFps))
    /\ IF call.fn = "find_center_circle_pos"
       THEN pc' = "returned" /\ frame_num' = frame_num
       ELSE pc' = "loop" /\ frame_num' = 0
    /\ UNCHANGED <<stab_vars, va_vars>>

\* the fps a sampler's own frame loop iterates at
PolarFps == 1

\* x = int(coords[frame_num][0]); y = int(coords[frame_num][1]); then the
\* sweep res of the frame: the outcome of one pass of a sampler's frame loop
PolarOutcome(res) ==
    IF frame_num >= Len(coords) THEN Raised("IndexError: coords") ELSE res

\* the frame a sampler's loop is at, and the center it reads for it
PolarFrame == IterFrames(clip, PolarFps)[frame_num + 1]
PolarCenter == <<coords[frame_num + 1][1], coords[frame_num + 1][2]>>

PolarGuard(fn) ==
    /\ pc = "loop"
    /\ call.fn = fn
    /\ frame_num < Len(IterFrames(clip, PolarFps))

\* find_angle_intensity: one pass of its frame loop
AngleFrame ==
    /\ PolarGuard("find_angle_intensity")
    /\ LET out == PolarOutcome(
                    AngleProfileOf[PolarFrame.pix, PolarCenter, call.radius])
       IN  IF out.exc # ""
           THEN /\ pc' = "raised" /\ raised' = out.exc
                /\ UNCHANGED <<frame_num, intensity_tot_angle>>
           ELSE /\ intensity_tot_angle' = Append(intensity_tot_angle, out.profile)
                /\ frame_num' = frame_num + 1
                /\ UNCHANGED <<pc, raised>>
    /\ UNCHANGED <<stab_vars, call, clip, coords, red_array, green_array, blue_array,
                   x_total_array, y_total_array, intensity_tot, files>>

\* find_angle_intensity_compressed: one pass of its frame loop
AngleCompressedFrame ==
    /\ PolarGuard("find_angle_intensity_compressed")
    /\ LET out == PolarOutcome(
                    AngleProfileCompressedOf[PolarFrame.pix, PolarCenter,
                                             call.radius, call.compress])
       IN  IF out.exc # ""
           THEN /\ pc' = "raised" /\ raised' = out.exc
                /\ UNCHANGED <<frame_num, intensity_tot_angle>>
           ELSE /\ intensity_tot_angle' = Append(intensity_tot_angle, out.profile)
                /\ frame_num' = frame_num + 1
                /\ UNCHANGED <<pc, raised>>
    /\ UNCHANGED <<stab_vars, call, clip, coords, red_array, green_array, blue_array,
                   x_total_array, y_total_array, intensity_tot, files>>

\* find_radius_intensity: one pass of its frame loop
RadiusFrame ==
    /\ PolarGuard("find_radius_intensity")
    /\ LET out == PolarOutcome(
                    RadiusProfileOf[PolarFrame.pix, PolarCenter, call.radius])
       IN  IF out.exc # ""
           THEN /\ pc' = "raised" /\ raised' = out.exc
                /\ UNCHANGED <<frame_num, intensity_tot>>
           ELSE /\ intensity_tot' = Append(intensity_tot, out.profile)
                /\ frame_num' = frame_num + 1
                /\ UNCHANGED <<pc, raised>>
    /\ UNCHANGED <<stab_vars, call, clip, coords, red_array, green_array, blue_array,
                   x_total_array, y_total_array, intensity_tot_angle, files>>

\* find_radius_intensity_compressed: one pass of its frame loop
RadiusCompressedFrame ==
    /\ PolarGuard("find_radius_intensity_compressed")
    /\ LET out == PolarOutcome(
                    RadiusProfileCompressedOf[PolarFrame.pix, PolarCenter,
                                              call.radius, call.compress])
       IN  IF out.exc # ""
           THEN /\ pc' = "raised" /\ raised' = out.exc
                /\ UNCHANGED <<frame_num, intensity_tot>>
           ELSE /\ intensity_tot' = Append(intensity_tot, out.profile)
                /\ frame_num' = frame_num + 1
                /\ UNCHANGED <<pc, raised>>
    /\ UNCHANGED <<stab_vars, call, clip, coords, red_array, green_array, blue_array,
                   x_total_array, y_total_array, intensity_tot_angle, files>>

\* the end of a sampler: np.savetxt when save is True, then return
PolarReturn(save) ==
    /\ pc = "loop"
    /\ call.fn \in PolarFns
    /\ frame_num = Len(IterFrames(clip, PolarFps))
    /\ files' = IF ~save THEN files
                ELSE IF call.fn \in {"find_angle_intensity",
                                     "find_angle_intensity_compressed"}
                THEN files \cup {SavetxtRows("angular", intensity_tot_angle, 0)}
                ELSE files \cup {SavetxtRows("radial", intensity_tot, 0)}
    /\ pc' = "returned"
    /\ UNCHANGED <<frame_num, stab_vars, call, clip, coords, series_vars, raised>>

\* the fps the frame loop of find_RGB_Hues, find_xy_intensities and
\* find_xy_intensities_compressed iterates at
XYFps ==
    IF call.fn = "find_xy_intensities" THEN call.fps ELSE 1

XYGuard(fn) ==
    /\ pc = "loop"
    /\ call.fn = fn
    /\ frame_num < Len(IterFrames(clip, XYFps))

XYFrame == IterFrames(clip, XYFps)[frame_num + 1]

\* find_RGB_Hues: one pass of its frame loop (frame_num counts the passes)
RGBFrame ==
    /\ XYGuard("find_RGB_Hues")
    /\ LET RGB_values == RGBValues(XYFrame.pix)
       IN  /\ red_array' = Append(red_array, RGB_values[1])
           /\ green_array' = Append(green_array, RGB_values[2])
           /\ blue_array' = Append(blue_array, RGB_values[3])
    /\ frame_num' = frame_num + 1
    /\ UNCHANGED <<pc, stab_vars, call, clip, coords, x_total_array, y_total_array,
                   intensity_tot_angle, intensity_tot, raised, files>>

\* find_RGB_Hues: np.savetxt of the three series when save is True, return
RGBReturn(save) ==
    /\ pc = "loop"
    /\ call.fn = "find_RGB_Hues"
    /\ frame_num = Len(IterFrames(clip, XYFps))
    /\ files' = IF ~save THEN files
                ELSE files \cup
                     { SavetxtRows("red_array_", Column(red_array), 4),
                       SavetxtRows("green_array_", Column(green_array), 4),
                       SavetxtRows("blue_array_", Column(blue_array), 4) }
    /\ pc' = "returned"
    /\ UNCHANGED <<frame_num, stab_vars, call, clip, coords, series_vars, raised>>

\* a frame loop that puts the newest frame first
XYIntensitiesFramePrepend ==
    /\ XYGuard("find_xy_intensities")
    /\ y_total_array' = <<YArrayOneFrame(XYFrame.pix)>> \o y_total_array
    /\ x_total_array' = <<XArrayOneFrame(XYFrame.pix)>> \o x_total_array
    /\ frame_num' = frame_num + 1
    /\ UNCHANGED <<pc, stab_vars, call, clip, coords, red_array, green_array,
                   blue_array, intensity_tot_angle, intensity_tot, raised, files>>

\* find_xy_intensities: one pass of its frame loop
XYIntensitiesFrame ==
    /\ XYGuard("find_xy_intensities")
    /\ y_total_array' = Append(y_total_array, YArrayOneFrame(XYFrame.pix))
    /\ x_total_array' = Append(x_total_array, XArrayOneFrame(XYFrame.pix))
    /\ frame_num' = frame_num + 1
    /\ UNCHANGED <<pc, stab_vars, call, clip, coords, red_array, green_array,
                   blue_array, intensity_tot_angle, intensity_tot, raised, files>>

\* find_xy_intensities_compressed: one pass of its frame loop
XYIntensitiesCompressedFrame ==
    /\ XYGuard("find_xy_intensities_compressed")
    /\ y_total_array' = Append(y_total_array,
                               YArrayOneFrameCompressed(XYFrame.pix, call.compress))
    /\ x_total_array' = Append(x_total_array,
                               XArrayOneFrameCompressed(XYFrame.pix, call.compress))
    /\ frame_num' = frame_num + 1
    /\ UNCHANGED <<pc, stab_vars, call, clip, coords, red_array, green_array,
                   blue_array, intensity_tot_angle, intensity_tot, raised, files>>

\* the end of both row and column functions: x_total_array[0] raises an
\* IndexError when no frame was read; np.savetxt when save is True; return
XYReturn(save) ==
    /\ pc = "loop"
    /\ call.fn \in {"find_xy_intensities", "find_xy_intensities_compressed"}
    /\ frame_num = Len(IterFrames(clip, XYFps))
    /\ IF Len(x_total_array) = 0
       THEN pc' = "raised" /\ raised' = "IndexError: x_total_array" /\ files' = files
       ELSE /\ files' = IF ~save THEN files
                        ELSE files \cup { SavetxtRows("x_array_", x_total_array, 0),
                                          SavetxtRows("y_array_", y_total_array, 0) }
            /\ pc' = "returned"
            /\ raised' = raised
    /\ UNCHANGED <<frame_num, stab_vars, call, clip, coords, series_vars>>

VaNext ==
    \/ OpenClip
    \/ CenterFrame
    \/ CenterReturn
    \/ AngleFrame
    \/ AngleCompressedFrame
    \/ RadiusFrame
    \/ RadiusCompressedFrame
    \/ \E save \in BOOLEAN : PolarReturn(save)
    \/ RGBFrame
    \/ \E save \in BOOLEAN : RGBReturn(save)
    \/ XYIntensitiesFrame
    \/ XYIntensitiesCompressedFrame
    \/ \E save \in BOOLEAN : XYReturn(save)

SpecVA == VaInit /\ [][VaNext]_vars

(***************************************************************************)
(* find_RGB_Hues on clips of every frame size: the frames of a clip have   *)
(* one size h x w, and each is of one colour or a gradient.                *)
(***************************************************************************)
Colours == { <<50, 100, 200>>, <<255, 255, 255>>, <<0, 7, 255>> }

SizedFrames(h, w) ==
    { [pix |-> ConstPix(h, w, colour), det |-> None] : colour \in Colours }
    \cup { [pix |-> GradientPix(h, w), det |-> None] }

SizedClips ==
    {[decodable |-> FALSE, frames |-> <<>>]} \cup
    UNION { { [decodable |-> TRUE, frames |-> q] :
                q \in SeqsUpTo(SizedFrames(h, w), MaxDuration) } :
            h \in 1..FrameH, w \in 1..FrameW }

RGBInit ==
    /\ pc = "call"
    /\ frame_num = 0
    /\ call \in { c \in XYCalls : c.fn = "find_RGB_Hues" }
    /\ clip \in SizedClips
    /\ coords = <<>>
    /\ red_array = <<>>
    /\ green_array = <<>>
    /\ blue_array = <<>>
    /\ x_total_array = <<>>
    /\ y_total_array = <<>>
    /\ intensity_tot_angle = <<>>
    /\ intensity_tot = <<>>
    /\ raised = ""
    /\ files = {}
    /\ opened = FALSE
    /\ circles = None
    /\ circle_coords = <<>>
    /\ coord = Unset
    /\ radius = Unset
    /\ roi = Unset
    /\ circle_coords_txt = NoFile

RGBNext ==
    \/ OpenClip
    \/ RGBFrame
    \/ \E save \in BOOLEAN : RGBReturn(save)

SpecRGB == RGBInit /\ [][RGBNext]_vars

(***************************************************************************)
(* Properties of the stabilization loop.                                   *)
(***************************************************************************)
IsPrefix(s, t) == Len(s) <= Len(t) /\ SubSeq(t, 1, Len(s)) = s

\* a step that reads a frame on which the detector reports no circle
MissStep == frame_num' = frame_num + 1 /\ circles' = None

\* C1: on every frame k > 0 with zero detected circles, the estimate
\* (x, y, radius) of frame k is the estimate of frame k-1.
C1_CarryForward ==
    [][(MissStep /\ frame_num > 0) => (coord' = coord /\ radius' = radius)]_vars

\* a miss after a hit: the estimate carried is a detected circle
C1_Witness ==
    /\ frame_num >= 2
    /\ circles = None
    /\ coord # <<680, 630, 280>>

\* C2: zero detected circles on frame 0 give the estimate (680, 630, 280).
C2_DefaultOnFirstMiss ==
    (frame_num = 1 /\ circles = None) =>
        (coord = <<680, 630, 280>> /\ radius = 280)

C2_Witness == frame_num = 1 /\ circles = None /\ coord[1] = 680

\* C3: after n frames circle_coords has exactly n rows, and the row of the
\* frame just read is that frame's estimate.
C3_OneRowPerFrame ==
    /\ Len(circle_coords) = frame_num
    /\ frame_num > 0 => circle_coords[frame_num] = coord

\* C5: no step shortens or rewrites circle_coords, and a frame with zero
\* detections leaves its last row as it is: the rows it adds repeat the
\* last row, and with no history its estimate is the hardcoded default.
C5_ChangedOnlyByDetection ==
    [][ /\ IsPrefix(circle_coords, circle_coords')
        /\ MissStep =>
              IF circle_coords = <<>>
              THEN /\ coord' = <<680, 630, 280>>
                   /\ \A k \in 1..Len(circle_coords') :
                          circle_coords'[k] = <<680, 630, 280>>
              ELSE /\ coord' = Last(circle_coords)
                   /\ Last(circle_coords') = Last(circle_coords)
                   /\ \A k \in (Len(circle_coords) + 1)..Len(circle_coords') :
                          circle_coords'[k] = Last(circle_coords)
      ]_vars

\* a miss with history: the last row repeats the row before it
C5_Witness ==
    /\ circles = None
    /\ Len(circle_coords) >= 2
    /\ circle_coords[Len(circle_coords)] = circle_coords[Len(circle_coords) - 1]
    /\ coord = Last(circle_coords)
(***************************************************************************)
(* Properties of the analysis functions.                                   *)
(***************************************************************************)
\* the frames the loop of the running function has been given
Yielded ==
    IF call.fn \in PolarFns THEN IterFrames(clip, PolarFps)
    ELSE IterFrames(clip, XYFps)

\* C4: a frame with no detected circle is no error: find_center_circle_pos
\* has a center for every frame it has read, and no sampler raises for want
\* of a center.
C4_MissNeverAnError ==
    /\ pc = "center" => Len(coords) = frame_num
    /\ raised # "IndexError: coords"

\* the entries at index k of the running function's series are those its
\* loop body computes from the k-th frame yielded
C6_EntryOfFrame(k) ==
    LET pix == Yielded[k].pix
    IN  CASE call.fn = "find_RGB_Hues" ->
               <<red_array[k], green_array[k], blue_array[k]>> = RGBValues(pix)
          [] call.fn = "find_xy_intensities" ->
               /\ y_total_array[k] = YArrayOneFrame(pix)
               /\ x_total_array[k] = XArrayOneFrame(pix)
          [] call.fn = "find_xy_intensities_compressed" ->
               /\ y_total_array[k] = YArrayOneFrameCompressed(pix, call.compress)
               /\ x_total_array[k] = XArrayOneFrameCompressed(pix, call.compress)
          [] call.fn = "find_angle_intensity" ->
               intensity_tot_angle[k] =
                   AngleProfileOf[pix, coords[k], call.radius].profile
          [] call.fn = "find_angle_intensity_compressed" ->
               intensity_tot_angle[k] =
                   AngleProfileCompressedOf[pix, coords[k], call.radius,
                                            call.compress].profile
          [] call.fn = "find_radius_intensity" ->
               intensity_tot[k] =
                   RadiusProfileOf[pix, coords[k], call.radius].profile
          [] call.fn = "find_radius_intensity_compressed" ->
               intensity_tot[k] =
                   RadiusProfileCompressedOf[pix, coords[k], call.radius,
                                             call.compress].profile
          [] OTHER -> TRUE

C6_SeriesOf ==
    CASE call.fn = "find_RGB_Hues" -> <<red_array, green_array, blue_array>>
      [] call.fn \in {"find_xy_intensities", "find_xy_intensities_compressed"} ->
           <<x_total_array, y_total_array>>
      [] call.fn \in {"find_angle_intensity", "find_angle_intensity_compressed"} ->
           <<intensity_tot_angle>>
      [] call.fn \in {"find_radius_intensity", "find_radius_intensity_compressed"} ->
           <<intensity_tot>>
      [] OTHER -> <<>>

\* C6: on return every series of the function has one entry per frame
\* yielded, entry k being that of frame k, and every step leaves each series
\* a prefix of what it becomes.
C6_OneRecordPerFrame ==
    /\ [](pc = "returned" =>
            /\ \A j \in 1..Len(C6_SeriesOf) : Len(C6_SeriesOf[j]) = Len(Yielded)
            /\ \A k \in 1..Len(Yielded) : C6_EntryOfFrame(k))
    /\ [][ /\ IsPrefix(red_array, red_array')
           /\ IsPrefix(green_array, green_array')
           /\ IsPrefix(blue_array, blue_array')
           /\ IsPrefix(x_total_array, x_total_array')
           /\ IsPrefix(y_total_array, y_total_array')
           /\ IsPrefix(intensity_tot_angle, intensity_tot_angle')
           /\ IsPrefix(intensity_tot, intensity_tot') ]_vars

\* a function returned a series of two different entries
C6_Witness ==
    /\ pc = "returned"
    /\ call.fn = "find_xy_intensities"
    /\ Len(y_total_array) >= 2
    /\ y_total_array[1] # y_total_array[2]

\* C7 as claimed: every angular profile has length 360 // compress.
C7_AngularLengthFloor ==
    \A k \in 1..Len(intensity_tot_angle) :
        Len(intensity_tot_angle[k]) = 360 \div call.compress

\* C7, amended: every angular profile has length ceil(360 / compress), which
\* is 360 for the uncompressed sampler.
C7_AngularLengthCeil ==
    \A k \in 1..Len(intensity_tot_angle) :
        Len(intensity_tot_angle[k]) =
            IF call.fn = "find_angle_intensity" THEN 360
            ELSE (360 + call.compress - 1) \div call.compress

\* a profile of 52 entries at compress = 7
C7_Witness ==
    /\ call.fn = "find_angle_intensity_compressed"
    /\ call.compress = 7
    /\ Len(intensity_tot_angle) >= 1
    /\ Len(intensity_tot_angle[1]) = 52

\* the mean over the 360 angles of the samples at radius r around center c,
\* for every ring that can be read whole
RingMean ==
    [p \in PixSet, c \in CenterSet, r \in 1..MaxRadius |->
        IF \A a \in 0..359 : Readable(p, c[1], c[2], r, a)
        THEN Mean([a \in 1..360 |-> Intensity(p, c[1], c[2], r, a - 1)])
        ELSE <<0, 0>>]

\* C8: every radial profile of a call with R >= 1 has length
\* (R-1) // compress (R-1 for the uncompressed sampler), and its j-th entry
\* is the mean over the 360 angles at radius j * compress.
C8_RadialLength ==
    call.radius >= 1 =>
        \A k \in 1..Len(intensity_tot) :
            LET stride == IF call.fn = "find_radius_intensity" THEN 1
                          ELSE call.compress
            IN  /\ Len(intensity_tot[k]) = (call.radius - 1) \div stride
                /\ \A j \in 1..Len(intensity_tot[k]) :
                      /\ j * stride \in 1..(call.radius - 1)
                      /\ intensity_tot[k][j] =
                           RingMean[Yielded[k].pix, coords[k], j * stride]

\* a compressed profile that skips radii
C8_Witness ==
    /\ call.fn = "find_radius_intensity_compressed"
    /\ call.compress = 2
    /\ call.radius = 4
    /\ Len(intensity_tot) >= 1
    /\ Len(intensity_tot[1]) = 1

\* C9: a compressed row (column) profile of a frame with N rows (columns)
\* has ceil(N / compress) entries, the j-th being the mean of row (column)
\* j * compress alone, counting from 0.
C9_StrideSubsample ==
    call.fn = "find_xy_intensities_compressed" =>
        \A k \in 1..Len(y_total_array) :
            LET pix == Yielded[k].pix
                c == call.compress
            IN  /\ Len(y_total_array[k]) = (Height(pix) + c - 1) \div c
                /\ Len(x_total_array[k]) = (Width(pix) + c - 1) \div c
                /\ \A j \in 1..Len(y_total_array[k]) :
                      y_total_array[k][j] = RowMean(pix, (j - 1) * c)
                /\ \A j \in 1..Len(x_total_array[k]) :
                      x_total_array[k][j] = ColumnMean(pix, (j - 1) * c)

\* a profile of rows 0 and 3 of a gradient frame
C9_Witness ==
    /\ call.fn = "find_xy_intensities_compressed"
    /\ call.compress = 3
    /\ Len(y_total_array) >= 1
    /\ Len(y_total_array[1]) = 2
    /\ y_total_array[1][1] # y_total_array[1][2]

\* the radii and the angles a sampler sweeps for the running call
SweptRadii ==
    IF call.fn = "find_radius_intensity_compressed"
    THEN Strided(1, call.radius, call.compress) ELSE Range(1, call.radius)
SweptAngles ==
    IF call.fn = "find_angle_intensity_compressed"
    THEN Strided(0, Degrees, call.compress) ELSE Range(0, Degrees)

\* the profiles the running sampler has appended
PolarSeries ==
    IF call.fn \in {"find_angle_intensity", "find_angle_intensity_compressed"}
    THEN intensity_tot_angle ELSE intensity_tot

\* C10: a sample whose x_new is outside [0, frame_width) stops the run with
\* an error: every frame whose profile was appended had all its x_new inside.
C10_OutOfBoundsXFailsFast ==
    call.fn \in PolarFns =>
        \A k \in 1..Len(PolarSeries) :
            \A b \in 1..Len(SweptRadii), a \in 1..Len(SweptAngles) :
                LET x_new == XNew(coords[k][1], SweptRadii[b], SweptAngles[a])
                IN  0 <= x_new /\ x_new < Width(Yielded[k].pix)

(***************************************************************************)
(* Further properties of the stabilization loop.                           *)
(***************************************************************************)
\* C11: the radius is never negative: every row recorded in circle_coords
\* and, once a frame has been read, the radius of the current frame are
\* >= 0.
C11_RadiusNeverNegative ==
    /\ \A k \in 1..Len(circle_coords) : circle_coords[k][3] >= 0
    /\ frame_num > 0 => (radius >= 0 /\ coord[3] >= 0)

\* detected radii were recorded and one of them is carried by a miss
C11_Witness ==
    /\ frame_num >= 2
    /\ circles = None
    /\ Len(circle_coords) >= 2
    /\ radius = Last(circle_coords)[3]
    /\ radius \in {1, 2}

(***************************************************************************)
(* Further properties of the analysis functions.                           *)
(***************************************************************************)
\* C12: the fps argument is honoured: on return every series of the function
\* has one record for each frame the clip yields at the fps of the call.
C12_RequestedFpsHonoured ==
    pc = "returned" =>
        \A j \in 1..Len(C6_SeriesOf) :
            Len(C6_SeriesOf[j]) = Len(IterFrames(clip, call.fps))

\* C13: a source that cannot be opened or yields no frame is fatal: no run
\* ends normally having read no frame, and no file is written from no frame.
\* The stabilization loop ends normally at pc = "exit", an analysis function
\* at pc = "returned".
C13_EmptySourceIsFatal ==
    /\ pc = "exit" => frame_num > 0
    /\ circle_coords_txt.written => frame_num > 0
    /\ pc = "returned" => (clip.decodable /\ Len(Yielded) > 0)
    /\ files # {} => Len(Yielded) > 0

\* C14: however the stabilization loop of an opened video is left,
\* circle_coords has been written to circle_coords.txt.
C14_EveryExitSaves ==
    (pc = "exit" /\ opened) =>
        (circle_coords_txt.written /\ circle_coords_txt.rows = circle_coords)

\* every pixel of the frame has the colour of its first pixel
IsConstant(pix) ==
    \A yy \in 1..Height(pix), xx \in 1..Width(pix) : pix[yy][xx] = pix[1][1]

\* C15: for a frame of any size whose pixels all equal (r, g, b), the values
\* appended to red_array, green_array and blue_array are exactly r, g and b.
C15_ConstantColourMean ==
    \A k \in 1..Len(red_array) :
        LET pix == Yielded[k].pix
        IN  IsConstant(pix) =>
                /\ RatEq(red_array[k], <<pix[1][1][1], 1>>)
                /\ RatEq(green_array[k], <<pix[1][1][2], 1>>)
                /\ RatEq(blue_array[k], <<pix[1][1][3], 1>>)

\* two frames of 3 rows and 2 columns, the first all (50, 100, 200)
C15_Witness ==
    /\ pc = "returned"
    /\ Len(red_array) = 2
    /\ Height(Yielded[1].pix) = 3
    /\ Width(Yielded[1].pix) = 2
    /\ Yielded[1].pix[3][2] = <<50, 100, 200>>
    /\ IsConstant(Yielded[1].pix)
    /\ RatEq(red_array[1], <<50, 1>>)
    /\ RatEq(blue_array[1], <<200, 1>>)

\* the latest of the frames 1..k on which the detector reported a circle,
\* 0 when there is none
LastHit(frames, k) ==
    LET hits == { j \in 1..k : frames[j].det # None }
    IN  IF hits = {} THEN 0 ELSE CHOOSE j \in hits : \A i \in hits : i <= j

\* C16: the estimate of a frame with detections is the last circle reported,
\* and a later frame with no detection has that circle as its estimate: in
\* the stabilization loop coord is the last circle of the frame, or the last
\* row recorded when there is none; in find_center_circle_pos the entry of
\* coords for a frame read is the center of the last circle of the latest
\* frame with a detection.
C16_LastCircleCarried ==
    /\ (frame_num > 0 /\ circles # None) =>
            (coord = Last(circles) /\ Last(circle_coords) = Last(circles))
    /\ (frame_num > 0 /\ circles = None /\ circle_coords # <<>>) =>
            coord = Last(circle_coords)
    /\ pc = "center" =>
            \A k \in 1..frame_num :
                LET frames == IterFrames(clip, CenterFps)
                    j == LastHit(frames, k)
                IN  j > 0 => /\ Len(coords) >= k
                             /\ coords[k] = CenterOf(frames[j].det)

Abs(n) == IF n < 0 THEN -n ELSE n

\* t is the value v / TrigScale cut toward zero
IsTruncation(t, v) ==
    /\ Abs(t) * TrigScale <= Abs(v)
    /\ Abs(v) < (Abs(t) + 1) * TrigScale
    /\ v >= 0 => t >= 0
    /\ v <= 0 => t <= 0

\* t is an integer nearest to the value v / TrigScale
IsNearest(t, v) == 2 * Abs(v - t * TrigScale) <= TrigScale

\* the stride of the angles the running sampler sweeps
AngleStride ==
    IF call.fn = "find_angle_intensity_compressed" THEN call.compress ELSE 1

\* for a center c, a radial step r and the angles of stride s: whether every
\* sample's offsets from the center are r*cos and r*sin cut toward zero,
\* and whether they are r*cos and r*sin rounded to the nearest integer
OffsetsTruncated ==
    [c \in CenterSet, r \in 1..MaxRadius, s \in CompressValues |->
        \A i \in { j \in 0..(Degrees - 1) : j % s = 0 } :
            /\ IsTruncation(XNew(c[1], r, i) - c[1], r * CosTable[i + 1])
            /\ IsTruncation((c[2] + YOffset(r, i)) - c[2], r * SinTable[i + 1])]

OffsetsNearest ==
    [c \in CenterSet, r \in 1..MaxRadius, s \in CompressValues |->
        \A i \in { j \in 0..(Degrees - 1) : j % s = 0 } :
            /\ IsNearest(XNew(c[1], r, i) - c[1], r * CosTable[i + 1])
            /\ IsNearest((c[2] + YOffset(r, i)) - c[2], r * SinTable[i + 1])]

\* C17 as claimed: for every frame sampled, every radial step r and angle
\* theta swept, x_new = x + round(r*cos(theta)) and
\* y_new = y + round(r*sin(theta)).
C17_NearestOffset ==
    call.fn \in PolarFns =>
        \A k \in 1..Len(PolarSeries) :
            \A b \in 1..Len(SweptRadii) :
                OffsetsNearest[coords[k], SweptRadii[b], AngleStride]

\* C17, amended: for every frame sampled, every radial step r and angle
\* theta swept, x_new = x + int(r*cos(theta)) and y_new = y +
\* int(r*sin(theta)) before the clamp, int cutting toward zero.
C17_TruncatedOffset ==
    call.fn \in PolarFns =>
        \A k \in 1..Len(PolarSeries) :
            \A b \in 1..Len(SweptRadii) :
                OffsetsTruncated[coords[k], SweptRadii[b], AngleStride]

\* a frame sampled at r = 2 and 30 degrees, where 2*cos is 1.73 and the
\* offset is 1
C17_Witness ==
    /\ call.fn = "find_angle_intensity"
    /\ call.radius >= 3
    /\ Len(intensity_tot_angle) >= 1
    /\ XNew(coords[1][1], 2, 30) = coords[1][1] + 1
    /\ ~IsNearest(1, 2 * CosTable[31])

\* for a frame p, a center c, a radial step r and the angles of stride s:
\* whether every sample is read at the row index frame_height - 1 when its
\* computed y_new is >= frame_height and at y_new otherwise, and at the
\* column index x_new, numpy taking a negative index from the far edge
BottomClampOnly ==
    [p \in PixSet, c \in CenterSet, r \in 1..MaxRadius, s \in CompressValues |->
        \A i \in { j \in 0..(Degrees - 1) : j % s = 0 } :
            LET x_new == c[1] + XOffset(r, i)
                y_new == c[2] + YOffset(r, i)
                row == IF y_new >= Height(p) THEN Height(p) - 1 ELSE y_new
            IN  /\ YNew(p, c[2], r, i) = row
                /\ XNew(c[1], r, i) = x_new
                /\ RowRead(p, c[2], r, i) = Position(row, Height(p))
                /\ ColumnRead(p, c[1], r, i) = Position(x_new, Width(p))]

\* C18: in all four samplers, for every sample of every frame sampled, the
\* row index read is frame_height - 1 when the computed y_new is >=
\* frame_height and y_new otherwise, and the column index read is the
\* computed x_new.
C18_BottomClampOnly ==
    call.fn \in PolarFns =>
        \A k \in 1..Len(PolarSeries) :
            \A b \in 1..Len(SweptRadii) :
                BottomClampOnly[Yielded[k].pix, coords[k], SweptRadii[b], AngleStride]

\* a frame sampled around a center on its left edge, one row above the
\* bottom: at 90 degrees y_new is frame_height and the row read is the last
\* one; at 180 degrees x_new is -1 and stays -1
C18_Witness ==
    /\ call.fn \in PolarFns
    /\ call.radius >= 2
    /\ Len(PolarSeries) >= 1
    /\ coords[1][1] = 0
    /\ coords[1][2] + YOffset(1, 90) = Height(Yielded[1].pix)
    /\ YNew(Yielded[1].pix, coords[1][2], 1, 90) = Height(Yielded[1].pix) - 1
    /\ XNew(coords[1][1], 1, 180) = -1

\* the loop body of a compressed sampler at compress = 1 and that of its
\* uncompressed counterpart have the same outcome, profile or exception, on
\* every frame, center and maximum radius
PolarOutcomesAgree ==
    \A p \in PixSet, c \in CenterSet, R \in 0..MaxRadius :
        /\ AngleProfileCompressedOf[p, c, R, 1] = AngleProfileOf[p, c, R]
        /\ RadiusProfileCompressedOf[p, c, R, 1] = RadiusProfileOf[p, c, R]

\* C19: at compress = 1 and fps = 1 a compressed function and its
\* uncompressed counterpart give the same per-frame vectors: every vector a
\* compressed function has appended is the one the loop body of its
\* counterpart computes from the same frame and center, and the other way
\* round, and the two loop bodies end in the same exception when they raise.
C19_CompressOneIsUncompressed ==
    /\ PolarOutcomesAgree
    /\ (call.fn = "find_xy_intensities_compressed" /\ call.compress = 1) =>
            \A k \in 1..Len(y_total_array) :
                /\ y_total_array[k] = YArrayOneFrame(Yielded[k].pix)
                /\ x_total_array[k] = XArrayOneFrame(Yielded[k].pix)
    /\ (call.fn = "find_xy_intensities" /\ call.fps = 1) =>
            \A k \in 1..Len(y_total_array) :
                /\ y_total_array[k] = YArrayOneFrameCompressed(Yielded[k].pix, 1)
                /\ x_total_array[k] = XArrayOneFrameCompressed(Yielded[k].pix, 1)
    /\ (call.fn = "find_angle_intensity_compressed" /\ call.compress = 1) =>
            \A k \in 1..Len(intensity_tot_angle) :
                intensity_tot_angle[k] =
                    AngleProfileOf[Yielded[k].pix, coords[k], call.radius].profile
    /\ call.fn = "find_angle_intensity" =>
            \A k \in 1..Len(intensity_tot_angle) :
                intensity_tot_angle[k] =
                    AngleProfileCompressedOf[Yielded[k].pix, coords[k],
                                             call.radius, 1].profile
    /\ (call.fn = "find_radius_intensity_compressed" /\ call.compress = 1) =>
            \A k \in 1..Len(intensity_tot) :
                intensity_tot[k] =
                    RadiusProfileOf[Yielded[k].pix, coords[k], call.radius].profile
    /\ call.fn = "find_radius_intensity" =>
            \A k \in 1..Len(intensity_tot) :
                intensity_tot[k] =
                    RadiusProfileCompressedOf[Yielded[k].pix, coords[k],
                                              call.radius, 1].profile

\* a compressed angular sampler returned a profile of 360 means at
\* compress = 1
C19_Witness ==
    /\ pc = "returned"
    /\ call.fn = "find_angle_intensity_compressed"
    /\ call.compress = 1
    /\ call.radius >= 3
    /\ Len(intensity_tot_angle) >= 1
    /\ Len(intensity_tot_angle[1]) = 360
    /\ intensity_tot_angle[1][1] # intensity_tot_angle[1][91]

\* C20: no average is taken over an empty list: no sampler ends in a
\* division by zero, and every per-angle average of a frame sampled by an
\* angular sampler is over the R - 1 >= 1 radii of range(1, R).
C20_NoEmptyAverage ==
    /\ raised # "ZeroDivisionError"
    /\ call.fn \in {"find_angle_intensity", "find_angle_intensity_compressed"} =>
            \A k \in 1..Len(intensity_tot_angle) :
                Len(SweptRadii) = call.radius - 1 /\ call.radius - 1 >= 1
====
